---- MODULE Spec2Model ----
(***************************************************************************)
(* A model of Djaizz/Dju (django_util / django_utils / djutil):            *)
(*   - the string normalizer  (src/src/djutil/str.py, django_util/__init__) *)
(*   - the key/value record's save (django_utils/models.py)                *)
(*   - get_by_name_or_uuid (src/src/djutil/models.py)                      *)
(*   - the autocomplete handler (src/src/djutil/autocompletes.py)          *)
(*   - the extensions migration (django_util/migrations/0000_pgsql_exts.py)*)
(*   - the snake-case named models' save (src/src/djutil/models.py)        *)
(*   - modify_abstract_model_field_attrs (src/src/djutil/models.py)        *)
(*                                                                         *)
(* A Python str is modelled as a sequence of Unicode code points.  The     *)
(* modelled character universe is ASCII (0..127) together with             *)
(*   223  U+00DF  LATIN SMALL LETTER SHARP S      (upper() is "SS")        *)
(*   304  U+0130  LATIN CAPITAL LETTER I WITH DOT (lower() is "i" U+0307)  *)
(*   496  U+01F0  LATIN SMALL LETTER J WITH CARON (upper() is "J" U+030C)  *)
(*   775  U+0307  COMBINING DOT ABOVE             (not matched by \w)      *)
(*   780  U+030C  COMBINING CARON                 (not matched by \w)      *)
(* which is closed under str.lower() and str.upper().                      *)
(***************************************************************************)
EXTENDS Integers, Sequences, FiniteSets, TLC

VARIABLES
    inp,        \* normalizer: the string the caller starts from
    hist,       \* normalizer: the calls made so far, each [fn, arg, ret]
    store,      \* key/value table: persisted key -> persisted value
    obj,        \* key/value: the in-memory record object, if any
    kvCall,     \* key/value: what the last save() did, if any
    objects,    \* UUID/name table: the set of persisted rows [uuid, name]
    lookup,     \* the last get_by_name_or_uuid call, if any
    rows,       \* autocomplete: the bound model's persisted rows
    handler,    \* autocomplete: the AutoComplete class the factory built
    response,   \* autocomplete: the last get_queryset call, if any
    extensions, \* migration: the extensions enabled in the database
    migration,  \* migration: the last application of the migration, if any
    named,      \* named models: the persisted rows [model, id, name]
    namedObj,   \* named models: the in-memory record object, if any
    namedCall,  \* named models: what the last save() did, if any
    listing,    \* the last name_or_uuid / names_or_uuids read, if any
    classes,    \* decorator: each model class's fields' properties
    decoration, \* decorator: the last decorated class, if any
    earlier     \* autocomplete: the get_queryset call before the last, if kept

vars == <<inp, hist, store, obj, kvCall, objects, lookup, rows, handler, response,
          extensions, migration,
          named, namedObj, namedCall,
          listing,
          classes, decoration,
          earlier>>

Null == "None"

\* an optional value: <<>> when absent, <<x>> when present
None == <<>>
Some(x) == <<x>>

----------------------------------------------------------------------------
(* Bounds of the model.                                                    *)

\* longest enumerated input string of the normalizer
MaxLen == 3
\* most normalizer calls in one run
MaxCalls == 2

----------------------------------------------------------------------------
(* Characters.                                                             *)

\* the underscore, the replacement string '_' of both re.sub calls
US == 95

\* re's \w on a str pattern: [a-zA-Z0-9_] and every other alphanumeric
IsWord(c) ==
    \/ c \in 48..57
    \/ c \in 65..90
    \/ c \in 97..122
    \/ c = US
    \/ c \in {223, 304, 496}

\* str.lower() of one character (may be longer than one character)
LowerChar(c) ==
    IF c \in 65..90 THEN <<c + 32>>
    ELSE IF c = 304 THEN <<105, 775>>
    ELSE <<c>>

\* str.upper() of one character (may be longer than one character)
UpperChar(c) ==
    IF c \in 97..122 THEN <<c - 32>>
    ELSE IF c = 223 THEN <<83, 83>>
    ELSE IF c = 496 THEN <<74, 780>>
    ELSE <<c>>

RECURSIVE lower(_)
lower(s) ==
    IF s = <<>> THEN <<>> ELSE LowerChar(Head(s)) \o lower(Tail(s))

RECURSIVE upper(_)
upper(s) ==
    IF s = <<>> THEN <<>> ELSE UpperChar(Head(s)) \o upper(Tail(s))

----------------------------------------------------------------------------
(* The normalizer: _clean, snake_case, upper_case.                         *)

\* the length of the longest prefix of s made of non-word characters
RECURSIVE NonWordRun(_)
NonWordRun(s) ==
    IF s = <<>> \/ IsWord(Head(s)) THEN 0 ELSE 1 + NonWordRun(Tail(s))

\* the length of the longest prefix of s made of underscores
RECURSIVE UnderscoreRun(_)
UnderscoreRun(s) ==
    IF s = <<>> \/ Head(s) # US THEN 0 ELSE 1 + UnderscoreRun(Tail(s))

Drop(s, n) == SubSeq(s, n + 1, Len(s))

\* re.sub(r'[^\w]+', '_', s): scanning from the left, every (greedy, hence
\* maximal) match of one or more non-word characters becomes one '_'
RECURSIVE sub_non_word(_)
sub_non_word(s) ==
    IF s = <<>> THEN <<>>
    ELSE IF NonWordRun(s) >= 1
         THEN <<US>> \o sub_non_word(Drop(s, NonWordRun(s)))
         ELSE <<Head(s)>> \o sub_non_word(Tail(s))

\* str.strip('_'): drop the leading and the trailing underscores
RECURSIVE lstrip(_)
lstrip(s) == IF s # <<>> /\ Head(s) = US THEN lstrip(Tail(s)) ELSE s

RECURSIVE rstrip(_)
rstrip(s) ==
    IF s # <<>> /\ s[Len(s)] = US THEN rstrip(SubSeq(s, 1, Len(s) - 1)) ELSE s

lstrip_only(s) == lstrip(s)

strip(s) == rstrip(lstrip(s))

\* re.sub('_{3,}', '_', s): a slip in the repetition count
RECURSIVE sub_underscores_from3(_)
sub_underscores_from3(s) ==
    IF s = <<>> THEN <<>>
    ELSE IF UnderscoreRun(s) >= 3
         THEN <<US>> \o sub_underscores_from3(Drop(s, UnderscoreRun(s)))
         ELSE <<Head(s)>> \o sub_underscores_from3(Tail(s))

\* re.sub('_{2,}', '_', s): every (greedy) match of two or more underscores
\* becomes one '_'; a single underscore does not match and is copied
RECURSIVE sub_underscores(_)
sub_underscores(s) ==
    IF s = <<>> THEN <<>>
    ELSE IF UnderscoreRun(s) >= 2
         THEN <<US>> \o sub_underscores(Drop(s, UnderscoreRun(s)))
         ELSE <<Head(s)>> \o sub_underscores(Tail(s))

clean(s) == sub_underscores(strip(sub_non_word(s)))

snake_case(s) == lower(clean(s))

upper_case(s) == upper(clean(s))

\* the two exported functions, by name
Apply(fn, s) == IF fn = "snake_case" THEN snake_case(s) ELSE upper_case(s)

----------------------------------------------------------------------------
(* The enumerated inputs.                                                  *)

\* a A 1 _ ! and the three non-ASCII letters
Alphabet == {97, 66, 49, US, 33, 223, 304, 496}

RECURSIVE StringsUpTo(_)
StringsUpTo(n) ==
    IF n = 0 THEN {<<>>}
    ELSE LET shorter == StringsUpTo(n - 1)
         IN  shorter \cup {Append(t, c) : t \in shorter, c \in Alphabet}

\* "Hello__World!!"
HelloWorld == <<72, 101, 108, 108, 111, 95, 95, 87, 111, 114, 108, 100, 33, 33>>
\* "hello_world"
hello_world == <<104, 101, 108, 108, 111, 95, 119, 111, 114, 108, 100>>
\* "HELLO_WORLD"
HELLO_WORLD == <<72, 69, 76, 76, 79, 95, 87, 79, 82, 76, 68>>

Inputs == StringsUpTo(MaxLen) \cup {HelloWorld}

----------------------------------------------------------------------------
(* The normalizer's calls.                                                 *)

StrIdle == inp = <<>> /\ hist = <<>>

\* the strings a caller holds: the input and every result so far
Held == {inp} \cup {hist[i].ret : i \in 1..Len(hist)}

\* one call: the record of its function, argument and return value
CallRecord(fn, a) == [fn |-> fn, arg |-> a, ret |-> Apply(fn, a)]

StrOthers ==
    <<inp, store, obj, kvCall, objects, lookup, rows, handler, response,
      extensions, migration,
      named, namedObj, namedCall,
      listing,
      classes, decoration,
      earlier>>

CallSnakeCase ==
    /\ Len(hist) < MaxCalls
    /\ \E a \in Held : hist' = Append(hist, CallRecord("snake_case", a))
    /\ UNCHANGED StrOthers

CallUpperCase ==
    /\ Len(hist) < MaxCalls
    /\ \E a \in Held : hist' = Append(hist, CallRecord("upper_case", a))
    /\ UNCHANGED StrOthers

----------------------------------------------------------------------------
(* The key/value record (_ModelWithPostgreSQLCICharPKAndJSONValueMixInABC,  *)
(* django_utils/models.py): key is a case-insensitive (citext) primary     *)
(* key, value is JSON.  The table is a set of rows [key, value].           *)

\* "db_host", "DB_HOST", "db--host"
db_host == <<100, 98, 95, 104, 111, 115, 116>>
DB_HOST == <<68, 66, 95, 72, 79, 83, 84>>
db_dash_host == <<100, 98, 45, 45, 104, 111, 115, 116>>

\* the keys a caller supplies: "", "!", "_", "-_", "a", "A", the three
\* spellings of db_host, and U+01F0, U+00DF
KeyInputs ==
    {<<>>, <<33>>, <<US>>, <<45, US>>, <<97>>, <<65>>,
     db_host, DB_HOST, db_dash_host, <<496>>, <<223>>}

\* JSON values, as tokens
Values == {"v1", "v2"}

KVIdle == store = {} /\ obj = None /\ kvCall = None

\* equality of two citext values: PostgreSQL compares their lower-casings
CIEq(a, b) == lower(a) = lower(b)

\* django's Model.save() for a row whose primary key is set: UPDATE the
\* row WHERE key = pk (the key column is not rewritten); INSERT when no
\* row was updated
super_save(table, key, value) ==
    IF \E r \in table : CIEq(r.key, key)
    THEN {IF CIEq(r.key, key) THEN [key |-> r.key, value |-> value] ELSE r :
             r \in table}
    ELSE table \cup {[key |-> key, value |-> value]}

KVOthers ==
    <<inp, hist, objects, lookup, rows, handler, response,
      extensions, migration,
      named, namedObj, namedCall,
      listing,
      classes, decoration,
      earlier>>

\* save() without the upper_case call
save_raw(k, v) ==
    /\ obj' = Some([key |-> k, value |-> v])
    /\ IF k = <<>>
       THEN /\ kvCall' = Some([supplied |-> k, raised |-> "AssertionError",
                               superSave |-> FALSE, before |-> store])
            /\ store' = store
       ELSE /\ kvCall' = Some([supplied |-> k, raised |-> Null,
                               superSave |-> TRUE, before |-> store])
            /\ store' = super_save(store, k, v)
    /\ UNCHANGED KVOthers

\* save() without its assert statement
save_unchecked(k, v) ==
    /\ obj' = Some([key |-> upper_case(k), value |-> v])
    /\ store' = super_save(store, upper_case(k), v)
    /\ kvCall' = Some([supplied |-> k, raised |-> Null, superSave |-> TRUE,
                       before |-> store])
    /\ UNCHANGED KVOthers

\* save() of an object whose key attribute is k and whose value is v:
\*     self.key = upper_case(self.key); assert self.key; super().save()
save(k, v) ==
    /\ obj' = Some([key |-> upper_case(k), value |-> v])
    /\ IF upper_case(k) = <<>>
       THEN /\ kvCall' = Some([supplied |-> k, raised |-> "AssertionError",
                               superSave |-> FALSE, before |-> store])
            /\ store' = store
       ELSE /\ kvCall' = Some([supplied |-> k, raised |-> Null,
                               superSave |-> TRUE, before |-> store])
            /\ store' = super_save(store, upper_case(k), v)
    /\ UNCHANGED KVOthers

\* a caller builds (or re-keys) an object and saves it
SaveNew == \E k \in KeyInputs, v \in Values : save(k, v)

\* a caller saves the object it holds once more, perhaps with a new value
SaveAgain == obj # None /\ \E v \in Values : save(obj[1].key, v)

----------------------------------------------------------------------------
(* The model with a UUID primary key and an optional unique name           *)
(* (_ModelWithUUIDPKAndOptionalUniqueNameABC, src/src/djutil/models.py).   *)
(* A UUID is its 32 hexadecimal digits, each a number in 0..15, the most   *)
(* significant first.  A row is [uuid, name]; name is None (NULL) or       *)
(* Some(string).                                                           *)

\* most rows of the table
MaxObjects == 2

\* the length uuid.UUID requires of the cleaned hex string
HexLen == 32

\* int(c, 16) of one character, or -1 when c is no hexadecimal digit
HexVal(c) ==
    IF c \in 48..57 THEN c - 48
    ELSE IF c \in 97..102 THEN c - 87
    ELSE IF c \in 65..70 THEN c - 55
    ELSE -1

\* str.replace(pat, ''): every occurrence of pat, from the left, removed
RECURSIVE remove_all(_, _)
remove_all(s, pat) ==
    IF Len(s) < Len(pat) THEN s
    ELSE IF SubSeq(s, 1, Len(pat)) = pat
         THEN remove_all(Drop(s, Len(pat)), pat)
         ELSE <<Head(s)>> \o remove_all(Tail(s), pat)

\* str.strip('{}'): leading and trailing braces removed
RECURSIVE strip_braces(_)
strip_braces(s) ==
    IF s # <<>> /\ Head(s) \in {123, 125} THEN strip_braces(Tail(s))
    ELSE IF s # <<>> /\ s[Len(s)] \in {123, 125}
         THEN strip_braces(SubSeq(s, 1, Len(s) - 1))
         ELSE s

\* the hex string uuid.UUID(hex=x) converts: 'urn:' and 'uuid:' removed,
\* braces stripped, hyphens removed
uuid_hex(x) ==
    remove_all(strip_braces(remove_all(remove_all(x, <<117, 114, 110, 58>>),
                                       <<117, 117, 105, 100, 58>>)),
               <<45>>)

\* version = 4 stamped on the digits: the version nibble (bits 76..79)
\* becomes 4 and the two variant bits (bits 62, 63) become binary 10
set_version4(d) == [d EXCEPT ![13] = 4, ![17] = 8 + (d[17] % 4)]

\* uuid.UUID(hex=x) without the version argument: the digits as written
uuid_as_written(x) ==
    LET h == uuid_hex(x) IN
    IF Len(h) # HexLen \/ \E i \in 1..Len(h) : HexVal(h[i]) < 0
    THEN None
    ELSE Some([i \in 1..HexLen |-> HexVal(h[i])])

\* uuid.UUID(hex=x, version=4): None for ValueError, else Some(digits).
\* (int(h, 16) also accepts white space, a sign, a 0x prefix and single
\* underscores between digits; no modelled input holds any of them.)
parse_uuid(x) ==
    LET h == uuid_hex(x) IN
    IF Len(h) # HexLen \/ \E i \in 1..Len(h) : HexVal(h[i]) < 0
    THEN None
    ELSE Some(set_version4([i \in 1..HexLen |-> HexVal(h[i])]))

\* cls.objects.get(uuid=u) and cls.objects.get(name=n) on a table: the
\* matching rows (at most one: uuid is the primary key, name is unique)
by_uuid(table, u) == {r \in table : r.uuid = u}
by_name(table, n) == {r \in table : r.name = Some(n)}

\* the outcome of objects.get(...) given the matching rows
got(matches) ==
    IF matches = {}
    THEN [raised |-> "DoesNotExist", ret |-> None]
    ELSE [raised |-> Null, ret |-> Some(CHOOSE r \in matches : TRUE)]

\* get_by_name_or_uuid that also falls back to the name when no row has
\* the UUID (except (ValueError, DoesNotExist))
get_by_name_or_uuid_fallback(table, x) ==
    LET u == parse_uuid(x) IN
    IF u # None /\ by_uuid(table, u[1]) # {}
    THEN [queries |-> <<[by |-> "uuid", val |-> u[1]]>>]
             @@ got(by_uuid(table, u[1]))
    ELSE [queries |-> (IF u # None THEN <<[by |-> "uuid", val |-> u[1]]>>
                       ELSE <<>>) \o <<[by |-> "name", val |-> x]>>]
             @@ got(by_name(table, x))

\* get_by_name_or_uuid(x) on a table: the queries it runs and its outcome
\*     try: _uuid = UUID(hex=x, version=4); return objects.get(uuid=_uuid)
\*     except ValueError: return objects.get(name=x)
get_by_name_or_uuid(table, x) ==
    LET u == parse_uuid(x) IN
    IF u # None
    THEN [queries |-> <<[by |-> "uuid", val |-> u[1]]>>]
             @@ got(by_uuid(table, u[1]))
    ELSE [queries |-> <<[by |-> "name", val |-> x]>>]
             @@ got(by_name(table, x))

\* "123e4567-e89b-12d3-a456-426614174000" (a version-1 UUID), and the
\* same string with the version digit 4
ExampleUUID == <<49, 50, 51, 101, 52, 53, 54, 55, 45, 101, 56, 57, 98, 45, 49, 50, 100, 51, 45, 97, 52, 53, 54, 45, 52, 50, 54, 54, 49, 52, 49, 55, 52, 48, 48, 48>>
ExampleUUIDv4 == <<49, 50, 51, 101, 52, 53, 54, 55, 45, 101, 56, 57, 98, 45, 52, 50, 100, 51, 45, 97, 52, 53, 54, 45, 52, 50, 54, 54, 49, 52, 49, 55, 52, 48, 48, 48>>
\* "{0F0F0F0F-0F0F-4F0F-8F0F-0F0F0F0F0F0F}", "urn:uuid:" and 32 hex digits
BracedUUID == <<123, 48, 70, 48, 70, 48, 70, 48, 70, 45, 48, 70, 48, 70, 45, 52, 70, 48, 70, 45, 56, 70, 48, 70, 45, 48, 70, 48, 70, 48, 70, 48, 70, 48, 70, 48, 70, 125>>
UrnUUID == <<117, 114, 110, 58, 117, 117, 105, 100, 58, 48, 102, 48, 102, 48, 102, 48, 102, 48, 102, 48, 102, 52, 102, 48, 102, 56, 102, 48, 102, 48, 102, 48, 102, 48, 102, 48, 102, 48, 102, 48, 102>>
\* "my-service", "other", and a name of 32 hexadecimal characters
my_service == <<109, 121, 45, 115, 101, 114, 118, 105, 99, 101>>
other_name == <<111, 116, 104, 101, 114>>
HexName == <<48, 49, 50, 51, 52, 53, 54, 55, 56, 57, 97, 98, 99, 100, 101, 102, 48, 49, 50, 51, 52, 53, 54, 55, 56, 57, 97, 98, 99, 100, 101, 102>>

\* str(u) of a UUID: its digits in lower case, hyphenated 8-4-4-4-12
HexChar(v) == IF v < 10 THEN 48 + v ELSE 87 + v
uuid_str(u) ==
    [i \in 1..36 |->
        IF i \in {9, 14, 19, 24} THEN 45
        ELSE HexChar(u[i - Cardinality({k \in {9, 14, 19, 24} : k < i})])]

\* the UUIDs rows are stored with, the names they carry, the arguments
UUIDs == {uuid_as_written(ExampleUUID)[1], uuid_as_written(ExampleUUIDv4)[1],
          uuid_as_written(UrnUUID)[1]}
Names == {None, Some(<<>>), Some(my_service), Some(HexName)}
LookupInputs ==
    {ExampleUUID, ExampleUUIDv4, BracedUUID, UrnUUID, my_service, other_name,
     HexName} \cup {uuid_str(u) : u \in UUIDs}

UUIDIdle == objects = {} /\ lookup = None

ListingIdle == listing = None

UUIDOthers ==
    <<inp, hist, store, obj, kvCall, rows, handler, response,
      extensions, migration,
      named, namedObj, namedCall,
      classes, decoration,
      earlier>>

\* a row is inserted: uuid is the primary key, a name that is not NULL is
\* unique
Create ==
    /\ Cardinality(objects) < MaxObjects
    /\ \E u \in UUIDs, n \in Names :
          /\ by_uuid(objects, u) = {}
          /\ n # None => \A r \in objects : r.name # n
          /\ objects' = objects \cup {[uuid |-> u, name |-> n]}
    /\ UNCHANGED <<lookup, listing>>
    /\ UNCHANGED UUIDOthers

\* a row is deleted
Delete ==
    /\ \E r \in objects : objects' = objects \ {r}
    /\ UNCHANGED <<lookup, listing>>
    /\ UNCHANGED UUIDOthers

\* a caller looks a record up
GetByNameOrUUID ==
    /\ objects' = objects
    /\ \E x \in LookupInputs :
          lookup' = Some([arg |-> x, before |-> objects, after |-> objects']
                             @@ get_by_name_or_uuid(objects, x))
    /\ UNCHANGED listing
    /\ UNCHANGED UUIDOthers

\* the record's name, or its uuid when the name is None
name_or_uuid_not_null(r) ==
    IF r.name # None
    THEN [kind |-> "name", val |-> r.name[1]]
    ELSE [kind |-> "uuid", val |-> r.uuid]

\* the property name_or_uuid: self.name if it is truthy (not None and not
\* ""), else self.uuid; the value is a str or a UUID
name_or_uuid(r) ==
    IF r.name # None /\ r.name[1] # <<>>
    THEN [kind |-> "name", val |-> r.name[1]]
    ELSE [kind |-> "uuid", val |-> r.uuid]

\* the orders in which a query may return the rows of the table
Orders(table) ==
    {s \in [1..Cardinality(table) -> table] :
        \A i, j \in 1..Cardinality(table) : s[i] = s[j] => i = j}

\* cls.objects.values_list('name', 'uuid'), the rows coming in the order s
values_list(s) == [i \in 1..Len(s) |-> <<s[i].name, s[i].uuid>>]

\* the class property names_or_uuids over the (name, uuid) pairs
names_or_uuids(pairs) ==
    [i \in 1..Len(pairs) |->
        IF pairs[i][1] # None /\ pairs[i][1][1] # <<>>
        THEN [kind |-> "name", val |-> pairs[i][1][1]]
        ELSE [kind |-> "uuid", val |-> pairs[i][2]]]

\* a caller reads r.name_or_uuid of a persisted record
NameOrUUID ==
    /\ objects' = objects
    /\ \E r \in objects :
          listing' = Some([op |-> "name_or_uuid", of |-> Some(r),
                           ret |-> <<name_or_uuid(r)>>,
                           before |-> objects, after |-> objects'])
    /\ UNCHANGED lookup
    /\ UNCHANGED UUIDOthers

\* a caller reads the class's names_or_uuids
NamesOrUUIDs ==
    /\ objects' = objects
    /\ \E s \in Orders(objects) :
          listing' = Some([op |-> "names_or_uuids", of |-> None,
                           ret |-> names_or_uuids(values_list(s)),
                           before |-> objects, after |-> objects'])
    /\ UNCHANGED lookup
    /\ UNCHANGED UUIDOthers

----------------------------------------------------------------------------
(* The autocomplete handler (autocomplete_factory,                         *)
(* src/src/djutil/autocompletes.py).  The bound model has the two text     *)
(* fields key and value; a row is [key, value].  A search condition is     *)
(* [field, lookup], for the keyword '<field>__<lookup>'.                   *)

\* most rows of the bound model's table
MaxRows == 2

\* the rows the table may hold: keys "AB", "c" and values "b", "x"
RowUniverse ==
    {[key |-> k, value |-> v] : k \in {<<65, 66>>, <<99>>},
                                v \in {<<98>>, <<120>>}}

\* the query strings: "", "b", "ab", "x", "zz"
Queries == {<<>>, <<98>>, <<97, 98>>, <<120>>, <<122, 122>>}

\* the factory's arguments and the bound model's own declarations
SearchFieldArgs == {<<>>, <<"key">>, <<"value">>, <<"key", "value">>}
ModelSearchFields == {<<>>, <<"key", "value">>}
\* min_input_len's default, used when the caller gives none
DefaultMinInputLen == 0

MinInputLens == {DefaultMinInputLen, 1, 3}

ACIdle == rows = {} /\ handler = None /\ response = None

EarlierIdle == earlier = None

ACOthers ==
    <<inp, hist, store, obj, kvCall, objects, lookup,
      extensions, migration,
      named, namedObj, namedCall,
      listing,
      classes, decoration,
      earlier>>

\* [f'{search_field}__icontains' for search_field in fields]
icontains_of(fields) ==
    [i \in 1..Len(fields) |-> [field |-> fields[i], lookup |-> "icontains"]]

\* _ModelWithAutoCompleteSearchFieldsABC.autocomplete_search_fields of a
\* model whose search_fields() returns model_fields
model_autocomplete_search_fields(model_fields) == icontains_of(model_fields)

\* what autocomplete_search_fields() of a model that has the method may
\* return: the mixin's list, or the list ['key__icontains'] of a model that
\* overrides the method
ModelAutoCompleteSearchFields(model_fields) ==
    {model_autocomplete_search_fields(model_fields),
     <<[field |-> "key", lookup |-> "icontains"]>>}

\* the resolution with the model's declarations put before the argument
resolve_model_first(arg, has_acsf, model_acsf, model_fields) ==
    IF has_acsf /\ model_acsf # <<>> THEN model_acsf
    ELSE IF model_fields # <<>> THEN icontains_of(model_fields)
    ELSE icontains_of(arg)

\* the class attribute autocomplete_search_fields, evaluated once in the
\* class body: the search_fields argument if it is not empty, else the
\* model's autocomplete_search_fields() (model_acsf) if it has the method,
\* else the model's search_fields()
resolve_search_fields(arg, has_acsf, model_acsf, model_fields) ==
    IF arg # <<>> THEN icontains_of(arg)
    ELSE IF has_acsf THEN model_acsf
    ELSE icontains_of(model_fields)

\* the attributes of the model the class body reads or calls: the
\* conditional expression evaluates only the branch it takes
consulted(arg, has_acsf) ==
    IF arg # <<>> THEN {}
    ELSE IF has_acsf THEN {"hasattr", "autocomplete_search_fields"}
    ELSE {"hasattr", "search_fields"}

\* autocomplete_factory(ModelClass, search_fields=arg, min_input_len=m)
autocomplete_factory(arg, has_acsf, model_acsf, model_fields, m) ==
    [search_fields |-> arg,
     has_acsf |-> has_acsf,
     model_acsf |-> model_acsf,
     model_search_fields |-> model_fields,
     data_min_input_len |-> m,
     consulted |-> consulted(arg, has_acsf),
     autocomplete_search_fields |->
         resolve_search_fields(arg, has_acsf, model_acsf, model_fields)]

\* whether text holds the substring q
Contains(text, q) ==
    \E i \in 0..(Len(text) - Len(q)) : SubSeq(text, i + 1, i + Len(q)) = q

\* field__icontains=q: UPPER(field) LIKE UPPER('%q%')
IContains(text, q) == Contains(upper(text), upper(q))

\* one Q(**{condition: q}) on a row
q_holds(row, cond, q) == cond.lookup = "icontains" /\ IContains(row[cond.field], q)

\* ModelClass.objects.filter(reduce(__or__, (Q(...) for each condition))):
\* the rows on which some condition holds
filter_or(table, conds, q) ==
    {r \in table : \E i \in 1..Len(conds) : q_holds(r, conds[i], q)}

\* get_queryset without the is_authenticated test
get_queryset_open(h, table, authenticated, q) ==
    IF q # <<>>
    THEN IF h.autocomplete_search_fields = <<>>
         THEN [raised |-> "TypeError", result |-> {}]
         ELSE [raised |-> Null,
               result |-> filter_or(table, h.autocomplete_search_fields, q)]
    ELSE IF h.data_min_input_len # 0
         THEN [raised |-> Null, result |-> {}]
         ELSE [raised |-> Null, result |-> table]

\* get_queryset without the data_min_input_len test
get_queryset_no_min(h, table, authenticated, q) ==
    IF authenticated
    THEN IF q # <<>>
         THEN IF h.autocomplete_search_fields = <<>>
              THEN [raised |-> "TypeError", result |-> {}]
              ELSE [raised |-> Null,
                    result |-> filter_or(table, h.autocomplete_search_fields, q)]
         ELSE [raised |-> Null, result |-> table]
    ELSE [raised |-> Null, result |-> {}]

\* get_queryset answering an empty query with every row the table may hold
get_queryset_universe(h, table, authenticated, q) ==
    IF authenticated
    THEN IF q # <<>>
         THEN IF h.autocomplete_search_fields = <<>>
              THEN [raised |-> "TypeError", result |-> {}]
              ELSE [raised |-> Null,
                    result |-> filter_or(table, h.autocomplete_search_fields, q)]
         ELSE IF h.data_min_input_len # 0
              THEN [raised |-> Null, result |-> {}]
              ELSE [raised |-> Null, result |-> RowUniverse]
    ELSE [raised |-> Null, result |-> {}]

\* AutoComplete.get_queryset for a request with the given authentication
\* status and query q; reduce() of an empty sequence raises TypeError
get_queryset(h, table, authenticated, q) ==
    IF authenticated
    THEN IF q # <<>>
         THEN IF h.autocomplete_search_fields = <<>>
              THEN [raised |-> "TypeError", result |-> {}]
              ELSE [raised |-> Null,
                    result |-> filter_or(table, h.autocomplete_search_fields, q)]
         ELSE IF h.data_min_input_len # 0
              THEN [raised |-> Null, result |-> {}]
              ELSE [raised |-> Null, result |-> table]
    ELSE [raised |-> Null, result |-> {}]

\* the factory builds the handler class
Factory ==
    /\ handler = None
    /\ \E arg \in SearchFieldArgs, has_acsf \in BOOLEAN,
          model_fields \in ModelSearchFields, m \in MinInputLens :
          \E model_acsf \in IF has_acsf
                             THEN ModelAutoCompleteSearchFields(model_fields)
                             ELSE {<<>>} :
              handler' = Some(autocomplete_factory(arg, has_acsf, model_acsf,
                                                   model_fields, m))
    /\ UNCHANGED <<rows, response>>
    /\ UNCHANGED ACOthers

\* a row of the bound model is inserted
AddRow ==
    /\ Cardinality(rows) < MaxRows
    /\ \E r \in RowUniverse \ rows : rows' = rows \cup {r}
    /\ UNCHANGED <<handler, response>>
    /\ UNCHANGED ACOthers

\* a request reaches the handler
GetQueryset ==
    /\ handler # None
    /\ rows' = rows
    /\ \E authenticated \in BOOLEAN, q \in Queries :
          response' = Some([authenticated |-> authenticated, q |-> q,
                            handler |-> handler[1],
                            before |-> rows, after |-> rows']
                               @@ get_queryset(handler[1], rows, authenticated, q))
    /\ UNCHANGED handler
    /\ UNCHANGED ACOthers

\* the variables no request touches
RequestOthers ==
    <<inp, hist, store, obj, kvCall, objects, lookup,
      extensions, migration,
      named, namedObj, namedCall,
      listing,
      classes, decoration>>

\* a request reaches the handler, and the record of the request before it
\* is kept in earlier when there was one and it was served from the same
\* table
GetQuerysetNext ==
    /\ handler # None
    /\ rows' = rows
    /\ \E authenticated \in BOOLEAN, q \in Queries :
          response' = Some([authenticated |-> authenticated, q |-> q,
                            handler |-> handler[1],
                            before |-> rows, after |-> rows']
                               @@ get_queryset(handler[1], rows, authenticated, q))
    /\ earlier' = IF response # None /\ response[1].before = rows
                  THEN Some([authenticated |-> response[1].authenticated,
                             q |-> response[1].q,
                             before |-> response[1].before,
                             raised |-> response[1].raised,
                             result |-> response[1].result])
                  ELSE None
    /\ UNCHANGED handler
    /\ UNCHANGED RequestOthers

----------------------------------------------------------------------------
(* The extensions migration (src/django_util/migrations/0000_pgsql_exts.py).*)
(* The database is the set of names of its enabled extensions.  Each       *)
(* operation is an instance of a subclass of                               *)
(* django.contrib.postgres.operations.CreateExtension, whose forward step  *)
(* executes CREATE EXTENSION IF NOT EXISTS <name>; the names are the ones  *)
(* the subclasses set.                                                     *)

\* most applications of the migration to one database
MaxRuns == 2

BtreeGinExtension == "btree_gin"
BtreeGistExtension == "btree_gist"
CITextExtension == "citext"
CryptoExtension == "pgcrypto"
HStoreExtension == "hstore"
TrigramExtension == "pg_trgm"
UnaccentExtension == "unaccent"

\* Migration.dependencies
dependencies == <<>>

\* the migration without its last operation
operations_without_unaccent ==
    <<BtreeGinExtension, BtreeGistExtension, CITextExtension, CryptoExtension,
      HStoreExtension, TrigramExtension>>

\* Migration.operations
operations ==
    <<BtreeGinExtension, BtreeGistExtension, CITextExtension, CryptoExtension,
      HStoreExtension, TrigramExtension, UnaccentExtension>>

\* extensions the migration does not name
OtherExtensions == {"plpgsql", "postgis"}

\* the extensions a database may have enabled before the migration
ExtensionUniverse == {operations[i] : i \in 1..Len(operations)} \cup OtherExtensions

\* one operation's forward step: CREATE EXTENSION IF NOT EXISTS name, which
\* enables the extension and raises nothing when it is already enabled
create_extension(db, name) ==
    [db |-> db \cup {name}, raised |-> Null]

\* the operations ops[i..] applied in order to db; an operation that
\* raises ends the run
RECURSIVE apply_from(_, _, _)
apply_from(ops, i, db) ==
    IF i > Len(ops) THEN [db |-> db, raised |-> Null]
    ELSE IF create_extension(db, ops[i]).raised # Null
         THEN create_extension(db, ops[i])
         ELSE apply_from(ops, i + 1, create_extension(db, ops[i]).db)

\* the migration applied to db
migrate(db) == apply_from(operations, 1, db)

MigIdle == extensions = {} /\ migration = None

MigOthers == <<inp, hist, store, obj, kvCall, objects, lookup, rows, handler, response,
      named, namedObj, namedCall,
      listing,
      classes, decoration,
      earlier>>

\* the migration is applied to the database
Migrate ==
    /\ IF migration = None THEN TRUE ELSE migration[1].run < MaxRuns
    /\ extensions' = migrate(extensions).db
    /\ migration' = Some([run |-> IF migration = None THEN 1 ELSE migration[1].run + 1,
                          dependencies |-> dependencies,
                          before |-> extensions,
                          raised |-> migrate(extensions).raised])
    /\ UNCHANGED MigOthers

----------------------------------------------------------------------------
(* The models with a snake-case unique name (src/src/djutil/models.py).    *)
(* One concrete model derives from _ModelWithSnakeCaseUniqueNameABC        *)
(* ("required": name is NOT NULL and unique) and one from                  *)
(* _ModelWithOptionalSnakeCaseUniqueNameABC ("optional": name is nullable  *)
(* and unique).  Neither declares a primary key, so a row has the id the   *)
(* database gives it.  A name is None or Some(string).                     *)

\* most rows of one model's table
MaxNamed == 2

NamedModels == {"required", "optional"}

\* the names a caller supplies: None, "", "!", "Hello__World!!",
\* "hello_world", U+0130 and "i"
NameInputs ==
    {None, Some(<<>>), Some(<<33>>), Some(HelloWorld), Some(hello_world),
     Some(<<304>>), Some(<<105>>)}

NamedIdle == named = {} /\ namedObj = None /\ namedCall = None

NamedOthers ==
    <<inp, hist, store, obj, kvCall, objects, lookup, rows, handler, response,
      extensions, migration,
      listing,
      classes, decoration,
      earlier>>

\* _ModelWithSnakeCaseUniqueNameABC.save up to super().save: the name is
\* replaced by snake_case of it; re.sub raises TypeError on None
required_name(name) ==
    IF name = None THEN [raised |-> "TypeError", name |-> name]
    ELSE [raised |-> Null, name |-> Some(snake_case(name[1]))]

\* _ModelWithOptionalSnakeCaseUniqueNameABC.save up to super().save: a
\* truthy name is replaced by snake_case of it, None and "" are kept
optional_name(name) ==
    IF name # None /\ name[1] # <<>>
    THEN [raised |-> Null, name |-> Some(snake_case(name[1]))]
    ELSE [raised |-> Null, name |-> name]

\* the name the model's save hands to super().save
name_to_save(model, name) ==
    IF model = "required" THEN required_name(name) ELSE optional_name(name)

\* the rows of one model
RowsOf(table, model) == {r \in table : r.model = model}

\* the id the database gives a new row
next_id(table, model) == Cardinality(RowsOf(table, model)) + 1

\* the unique constraint on name: another row of the model has this name
\* (NULLs are never equal)
name_taken(table, model, id, name) ==
    /\ name # None
    /\ \E r \in RowsOf(table, model) : r.id # id /\ r.name = name

\* django.db.models.Model.save: UPDATE the row with the object's id when
\* it has one and the row exists, else INSERT; a duplicate name raises
\* IntegrityError and writes nothing
model_save(table, model, pk, name) ==
    IF pk # None /\ (\E r \in RowsOf(table, model) : r.id = pk[1])
    THEN IF name_taken(table, model, pk[1], name)
         THEN [raised |-> "IntegrityError", table |-> table, pk |-> pk]
         ELSE [raised |-> Null,
               table |-> {r \in table : ~(r.model = model /\ r.id = pk[1])}
                            \cup {[model |-> model, id |-> pk[1], name |-> name]},
               pk |-> pk]
    ELSE IF name_taken(table, model, 0, name)
         THEN [raised |-> "IntegrityError", table |-> table, pk |-> pk]
         ELSE [raised |-> Null,
               table |-> table \cup {[model |-> model,
                                      id |-> next_id(table, model),
                                      name |-> name]},
               pk |-> Some(next_id(table, model))]

\* save() of an object of the model with the given id and name
named_save(table, model, pk, name) ==
    IF name_to_save(model, name).raised # Null
    THEN [raised |-> name_to_save(model, name).raised, table |-> table,
          pk |-> pk, name |-> name]
    ELSE [name |-> name_to_save(model, name).name]
            @@ model_save(table, model, pk, name_to_save(model, name).name)

\* the state after save() of the object, and the record of the call
NamedSaved(model, pk, name) ==
    /\ named' = named_save(named, model, pk, name).table
    /\ namedObj' = Some([model |-> model,
                         pk |-> named_save(named, model, pk, name).pk,
                         name |-> named_save(named, model, pk, name).name])
    /\ namedCall' = Some([model |-> model, supplied |-> name,
                          raised |-> named_save(named, model, pk, name).raised,
                          pk |-> named_save(named, model, pk, name).pk,
                          before |-> named])
    /\ UNCHANGED NamedOthers

\* Model(name=n).save() on a new object
SaveNamedNew ==
    \E model \in NamedModels, n \in NameInputs :
        /\ Cardinality(RowsOf(named, model)) < MaxNamed
        /\ NamedSaved(model, None, n)

\* o.name = n; o.save() on the object in memory
SaveNamedAgain ==
    /\ namedObj # None
    /\ \E n \in NameInputs :
          /\ namedObj[1].pk = None
                 => Cardinality(RowsOf(named, namedObj[1].model)) < MaxNamed
          /\ NamedSaved(namedObj[1].model, namedObj[1].pk, n)

----------------------------------------------------------------------------
(* modify_abstract_model_field_attrs (src/src/djutil/models.py).  A model  *)
(* class is its fields, a field is its properties: classes[c][f][p] is     *)
(* the value of property p of field f of class c.  Each class has its own  *)
(* field objects (Django copies the fields a class inherits from an        *)
(* abstract base).  kwargs is a dict, modelled as the sequence of its      *)
(* items <<field_name, property_dict>> in insertion order, a property_dict *)
(* being the sequence of its items <<property_name, property_value>>.      *)

ModelClasses == {"Service", "Job"}
FieldNames == {"name", "date"}
PropertyNames == {"verbose_name", "null"}

\* the classes as declared
DeclaredClasses ==
    [c \in ModelClasses |-> [f \in FieldNames |-> [p \in PropertyNames |-> "declared"]]]

\* the keyword arguments a caller gives
KwargsInputs ==
    {<<>>,
     << <<"name", << <<"verbose_name", "x">> >> >> >>,
     << <<"name", << <<"verbose_name", "y">>, <<"null", "x">> >> >> >>,
     << <<"date", << <<"null", "y">> >> >> >>,
     << <<"name", << <<"null", "x">> >> >>,
        <<"date", << <<"verbose_name", "y">> >> >> >>,
     << <<"name", <<>> >> >>,
     << <<"name", << <<"null", "y">> >> >>,
        <<"nope", << <<"null", "x">> >> >> >>}

DecoIdle == classes = DeclaredClasses /\ decoration = None

DecoOthers ==
    <<inp, hist, store, obj, kvCall, objects, lookup, rows, handler, response,
      extensions, migration,
      named, namedObj, namedCall,
      listing,
      earlier>>

\* setattr(field, property_name, property_value)
setattr(field, property_name, property_value) ==
    [p \in DOMAIN field \cup {property_name} |->
        IF p = property_name THEN property_value ELSE field[p]]

\* the inner loop setting only the first listed property of the field
RECURSIVE set_first_property(_, _, _, _)
set_first_property(cls, field_name, property_dict, j) ==
    IF j > Len(property_dict) \/ j > 1 THEN [cls |-> cls, raised |-> Null]
    ELSE IF field_name \notin DOMAIN cls
         THEN [cls |-> cls, raised |-> "FieldDoesNotExist"]
         ELSE [cls |-> [cls EXCEPT ![field_name] =
                           setattr(cls[field_name], property_dict[j][1],
                                   property_dict[j][2])],
               raised |-> Null]

\* the inner loop from its j-th item: for each (property_name,
\* property_value), setattr(cls._meta.get_field(field_name), ...);
\* get_field raises FieldDoesNotExist for a name the class does not have
RECURSIVE set_properties(_, _, _, _)
set_properties(cls, field_name, property_dict, j) ==
    IF j > Len(property_dict) THEN [cls |-> cls, raised |-> Null]
    ELSE IF field_name \notin DOMAIN cls
         THEN [cls |-> cls, raised |-> "FieldDoesNotExist"]
         ELSE set_properties(
                  [cls EXCEPT ![field_name] =
                      setattr(cls[field_name], property_dict[j][1],
                              property_dict[j][2])],
                  field_name, property_dict, j + 1)

\* modify(DjangoModelClass), the outer loop from its i-th item; what was
\* set before an exception stays set
RECURSIVE modify_from(_, _, _)
modify_from(cls, kwargs, i) ==
    IF i > Len(kwargs) THEN [cls |-> cls, raised |-> Null]
    ELSE IF set_properties(cls, kwargs[i][1], kwargs[i][2], 1).raised # Null
         THEN set_properties(cls, kwargs[i][1], kwargs[i][2], 1)
         ELSE modify_from(set_properties(cls, kwargs[i][1], kwargs[i][2], 1).cls,
                          kwargs, i + 1)

\* modify_abstract_model_field_attrs(**kwargs)(DjangoModelClass) on the
\* class named c: the classes afterwards, the exception, the class returned
modify(all, c, kwargs) ==
    [classes |-> [all EXCEPT ![c] = modify_from(all[c], kwargs, 1).cls],
     raised |-> modify_from(all[c], kwargs, 1).raised,
     ret |-> IF modify_from(all[c], kwargs, 1).raised = Null
             THEN Some(c) ELSE None]

\* a class is decorated
Decorate ==
    /\ \E c \in ModelClasses, kwargs \in KwargsInputs :
          /\ classes' = modify(classes, c, kwargs).classes
          /\ decoration' = Some([cls |-> c, kwargs |-> kwargs,
                                 raised |-> modify(classes, c, kwargs).raised,
                                 ret |-> modify(classes, c, kwargs).ret,
                                 before |-> classes])
    /\ UNCHANGED DecoOthers

----------------------------------------------------------------------------
(* Specifications.                                                         *)

\* the normalizer applied to every enumerated input
InitStr == inp \in Inputs /\ hist = <<>> /\ KVIdle /\ UUIDIdle /\ ACIdle /\ MigIdle /\ NamedIdle /\ ListingIdle /\ DecoIdle /\ EarlierIdle

NextStr == CallSnakeCase \/ CallUpperCase

SpecStr == InitStr /\ [][NextStr]_vars

\* the key/value record saved again and again, from an empty table
InitKV == StrIdle /\ KVIdle /\ UUIDIdle /\ ACIdle /\ MigIdle /\ NamedIdle /\ ListingIdle /\ DecoIdle /\ EarlierIdle

NextKV == SaveNew \/ SaveAgain

SpecKV == InitKV /\ [][NextKV]_vars

\* rows created and deleted, and looked up by name or UUID
InitUUID == StrIdle /\ KVIdle /\ UUIDIdle /\ ACIdle /\ MigIdle /\ NamedIdle /\ ListingIdle /\ DecoIdle /\ EarlierIdle

NextUUID == Create \/ Delete \/ GetByNameOrUUID

SpecUUID == InitUUID /\ [][NextUUID]_vars

\* rows created and deleted, and their names or UUIDs read
InitNames == StrIdle /\ KVIdle /\ UUIDIdle /\ ACIdle /\ MigIdle /\ NamedIdle /\ ListingIdle /\ DecoIdle /\ EarlierIdle

NextNames == Create \/ Delete \/ NameOrUUID \/ NamesOrUUIDs

SpecNames == InitNames /\ [][NextNames]_vars

\* a handler built by the factory, serving requests over a growing table
InitAC == StrIdle /\ KVIdle /\ UUIDIdle /\ ACIdle /\ MigIdle /\ NamedIdle /\ ListingIdle /\ DecoIdle /\ EarlierIdle

NextAC == Factory \/ AddRow \/ GetQueryset

SpecAC == InitAC /\ [][NextAC]_vars

\* the migration applied, and applied again, to a database with any set of
\* extensions already enabled
InitMig ==
    /\ StrIdle /\ KVIdle /\ UUIDIdle /\ ACIdle /\ NamedIdle /\ ListingIdle /\ DecoIdle /\ EarlierIdle
    /\ extensions \in SUBSET ExtensionUniverse
    /\ migration = None

NextMig == Migrate

SpecMig == InitMig /\ [][NextMig]_vars

\* records of the two named models saved again and again, from empty tables
InitNamed == StrIdle /\ KVIdle /\ UUIDIdle /\ ACIdle /\ MigIdle /\ NamedIdle /\ ListingIdle /\ DecoIdle /\ EarlierIdle

NextNamed == SaveNamedNew \/ SaveNamedAgain

SpecNamed == InitNamed /\ [][NextNamed]_vars

\* a handler built by the factory, serving request after request over a
\* growing table
InitRequests == InitAC

NextRequests == Factory \/ AddRow \/ GetQuerysetNext

SpecRequests == InitRequests /\ [][NextRequests]_vars

\* the model classes decorated again and again
InitDeco ==
    /\ StrIdle /\ KVIdle /\ UUIDIdle /\ ACIdle /\ MigIdle /\ NamedIdle /\ ListingIdle /\ EarlierIdle
    /\ DecoIdle

NextDeco == Decorate

SpecDeco == InitDeco /\ [][NextDeco]_vars

----------------------------------------------------------------------------
(* Claims about the normalizer.                                            *)

IsAlnum(c) == IsWord(c) /\ c # US

\* no leading underscore, no trailing underscore, no two adjacent underscores
WellFormed(r) ==
    /\ r # <<>> => r[1] # US /\ r[Len(r)] # US
    /\ \A k \in 1..(Len(r) - 1) : ~(r[k] = US /\ r[k + 1] = US)

\* C1: every string returned by snake_case or upper_case does not start
\* with an underscore, does not end with one, and holds no run of two or
\* more underscores.
C1_NoStrayUnderscores == \A i \in 1..Len(hist) : WellFormed(hist[i].ret)

\* an argument that has an alphanumeric character and is not well formed
\* or holds a non-word character
Dirty(s) ==
    /\ \E k \in 1..Len(s) : IsAlnum(s[k])
    /\ ~WellFormed(s) \/ \E k \in 1..Len(s) : ~IsWord(s[k])

\* C1 witness: both functions have returned a non-empty result for an
\* argument that starts with an underscore and ends with a non-word
\* character.
C1_Witness ==
    /\ Len(hist) = 2
    /\ hist[1].fn = "snake_case" /\ hist[2].fn = "upper_case"
    /\ \A i \in 1..2 :
          /\ Dirty(hist[i].arg)
          /\ hist[i].arg[1] = US
          /\ ~IsWord(hist[i].arg[Len(hist[i].arg)])
          /\ hist[i].ret # <<>>

\* the elements of s at the indices in K, in order, each through f
PickIdx(s, K, f(_)) ==
    [r \in 1..Cardinality(K) |->
        f(s[CHOOSE i \in K : Cardinality({j \in K : j <= i}) = r])]

Ident(c) == c
WordOrUS(c) == IF IsWord(c) THEN c ELSE US

\* step (1): each maximal run of non-word characters is one underscore:
\* a non-word character is kept (as '_') only where it starts its run
RefReplaceRuns(s) ==
    PickIdx(s, {i \in 1..Len(s) : IsWord(s[i]) \/ i = 1 \/ IsWord(s[i - 1])},
            WordOrUS)

\* step (2): what lies between the first and the last non-underscore
RefStrip(s) ==
    LET keep == {i \in 1..Len(s) : s[i] # US}
    IN  IF keep = {} THEN <<>>
        ELSE PickIdx(s, {i \in 1..Len(s) :
                            /\ \E a \in keep : a <= i
                            /\ \E b \in keep : b >= i}, Ident)

\* step (3): an underscore is kept only where it starts its run
RefCollapse(s) ==
    PickIdx(s, {i \in 1..Len(s) : s[i] # US \/ i = 1 \/ s[i - 1] # US}, Ident)

RefClean(s) == RefCollapse(RefStrip(RefReplaceRuns(s)))

\* C2: snake_case(s) is the lower-casing, and upper_case(s) the upper-casing,
\* of s with (1) each maximal run of non-word characters replaced by one
\* underscore, (2) leading and trailing underscores stripped, (3) runs of
\* underscores collapsed, in that order; "Hello__World!!" gives
\* "hello_world" and "HELLO_WORLD"; every call returns a string.
C2_CleanThenCase ==
    \A i \in 1..Len(hist) :
        LET c == hist[i] IN
        /\ c.fn = "snake_case" => c.ret = lower(RefClean(c.arg))
        /\ c.fn = "upper_case" => c.ret = upper(RefClean(c.arg))
        /\ c.fn = "snake_case" /\ c.arg = HelloWorld => c.ret = hello_world
        /\ c.fn = "upper_case" /\ c.arg = HelloWorld => c.ret = HELLO_WORLD
        /\ c.ret \in Seq(Nat)

\* C2 witness: both functions have been applied to "Hello__World!!".
C2_Witness ==
    /\ Len(hist) = 2
    /\ hist[1].arg = HelloWorld /\ hist[2].arg = HelloWorld
    /\ hist[1].fn = "snake_case" /\ hist[2].fn = "upper_case"
    /\ hist[1].ret = hello_world /\ hist[2].ret = HELLO_WORLD

\* C3: the normalizer is idempotent: a function applied to a result of
\* snake_case or upper_case gives what that function gives for the
\* original argument (so f(f(s)) = f(s), upper_case(snake_case(s)) =
\* upper_case(s) and snake_case(upper_case(s)) = snake_case(s)).
C3_Idempotent ==
    \A i, j \in 1..Len(hist) :
        i < j /\ hist[j].arg = hist[i].ret
            => /\ hist[j].ret = Apply(hist[j].fn, hist[i].arg)
               /\ hist[j].fn = hist[i].fn => hist[j].ret = hist[i].ret

\* C4: upper_case(s) and snake_case(s) differ only in letter case: same
\* length, equal wherever either holds a digit or an underscore, and the
\* lower-casing of upper_case(s) is snake_case(s).
C4_DifferOnlyInCase ==
    \A i, j \in 1..Len(hist) :
        /\ hist[i].fn = "snake_case" /\ hist[j].fn = "upper_case"
        /\ hist[i].arg = hist[j].arg
        => LET lo == hist[i].ret
               up == hist[j].ret
           IN  /\ Len(lo) = Len(up)
               /\ \A k \in 1..Len(lo) :
                     (lo[k] \in 48..57 \cup {US} \/ up[k] \in 48..57 \cup {US})
                         => lo[k] = up[k]
               /\ lower(up) = lo


----------------------------------------------------------------------------
(* Claims about the key/value record.                                      *)

Keys(table) == {r.key : r \in table}

\* C5: after any sequence of successful saves every persisted key is
\* upper_case of the key the caller supplied ("db_host" is persisted as
\* "DB_HOST"), every persisted key is a fixed point of upper_case, and the
\* saved object's in-memory key is the persisted key.
C5_KeyUpperCased ==
    /\ \A r \in store : upper_case(r.key) = r.key
    /\ kvCall # None /\ kvCall[1].raised = Null
        => /\ upper_case(kvCall[1].supplied) \in Keys(store)
           /\ obj[1].key \in Keys(store)
           /\ obj[1].key = upper_case(kvCall[1].supplied)
           /\ kvCall[1].supplied = db_host => DB_HOST \in Keys(store)

\* a key that is empty or made only of non-word characters and underscores
EmptyAfterCleaning(k) == \A i \in 1..Len(k) : ~IsAlnum(k[i])

\* C6: a save whose key is empty after cleaning fails with an assertion
\* error before the underlying save is invoked and leaves the table as it
\* was; no row with an empty key is ever persisted.
C6_EmptyKeyRejected ==
    /\ \A r \in store : r.key # <<>>
    /\ kvCall # None /\ EmptyAfterCleaning(kvCall[1].supplied)
        => /\ kvCall[1].raised = "AssertionError"
           /\ ~kvCall[1].superSave
           /\ store = kvCall[1].before

\* C6 witness: a save of a non-empty key made only of non-word characters
\* and underscores has failed on a table that holds rows.
C6_Witness ==
    /\ kvCall # None
    /\ kvCall[1].supplied = <<45, US>>
    /\ kvCall[1].raised = "AssertionError"
    /\ store # {}


\* two keys that are the same string once letter case is ignored
EqualIgnoringCase(a, b) == lower(a) = lower(b) \/ upper(a) = upper(b)

\* C19: after any sequence of saves no two persisted records have keys
\* that are equal ignoring letter case, and saves whose supplied keys have
\* the same upper_case normal form address the same record: a successful
\* save writes the one record whose key is that normal form, adding no
\* record when one existed, so that at most one record exists for "db_host",
\* "DB_HOST" and "db--host".
C19_OneRecordPerNormalForm ==
    /\ \A r1, r2 \in store : EqualIgnoringCase(r1.key, r2.key) => r1 = r2
    /\ kvCall # None /\ kvCall[1].raised = Null
           => /\ Cardinality({r \in store :
                     r.key = upper_case(kvCall[1].supplied)}) = 1
              /\ upper_case(kvCall[1].supplied) \in Keys(kvCall[1].before)
                     => Cardinality(store) = Cardinality(kvCall[1].before)
    /\ Cardinality({r \in store :
           r.key \in {upper_case(db_host), upper_case(DB_HOST),
                      upper_case(db_dash_host)}}) <= 1

\* C19 witness: "db--host" saved with a new value when a record with key
\* "DB_HOST" existed: the table still holds that one record, with the new
\* value.
C19_Witness ==
    /\ kvCall # None
    /\ kvCall[1].raised = Null
    /\ kvCall[1].supplied = db_dash_host
    /\ kvCall[1].before = {[key |-> DB_HOST, value |-> "v1"]}
    /\ store = {[key |-> DB_HOST, value |-> "v2"]}

----------------------------------------------------------------------------
(* Claims about get_by_name_or_uuid.                                       *)

\* C7: get_by_name_or_uuid(x) first tries to parse x as a UUID; when that
\* succeeds the record is looked up by UUID only and the name is not
\* consulted; when it fails the record is looked up by exact match of its
\* name against x.  The example UUID string takes the UUID path and
\* "my-service" the name path.
C7_UUIDFirstThenName ==
    lookup # None =>
        LET l == lookup[1] IN
        /\ Len(l.queries) = 1
        /\ parse_uuid(l.arg) # None
            => /\ l.queries[1].by = "uuid"
               /\ l.ret # None => l.ret[1].uuid = l.queries[1].val
               /\ l.ret = None <=> by_uuid(l.before, l.queries[1].val) = {}
        /\ parse_uuid(l.arg) = None
            => /\ l.queries[1] = [by |-> "name", val |-> l.arg]
               /\ l.ret # None => l.ret[1].name = Some(l.arg)
               /\ l.ret = None <=> by_name(l.before, l.arg) = {}
        /\ l.ret # None => l.ret[1] \in l.before
        /\ l.arg = ExampleUUID => l.queries[1].by = "uuid"
        /\ l.arg = my_service => l.queries[1].by = "name"

\* C7 witness: the argument parses as a UUID, no row has that UUID, and a
\* row whose name is the argument exists; the lookup reports no record.
C7_Witness ==
    /\ lookup # None
    /\ lookup[1].arg = HexName
    /\ by_name(lookup[1].before, HexName) # {}
    /\ lookup[1].queries[1].by = "uuid"
    /\ lookup[1].raised = "DoesNotExist"

\* C8: get_by_name_or_uuid(x) raises DoesNotExist and returns no record
\* whenever no persisted row has x as its UUID and none has x as its name;
\* the lookup does not modify the table.
C8_NotFoundSurfaces ==
    lookup # None =>
        LET l == lookup[1] IN
        /\ l.after = l.before
        /\ (/\ uuid_as_written(l.arg) # None
                => by_uuid(l.before, uuid_as_written(l.arg)[1]) = {}
            /\ by_name(l.before, l.arg) = {})
            => l.raised = "DoesNotExist" /\ l.ret = None


\* the name of r when it is neither None nor "", else the UUID of r
NameElseUUID(r) ==
    IF r.name \in {None, Some(<<>>)}
    THEN [kind |-> "uuid", val |-> r.uuid]
    ELSE [kind |-> "name", val |-> r.name[1]]

\* C15: name_or_uuid of a record is its name when the name is not empty
\* and its UUID when the name is None or ""; names_or_uuids holds exactly
\* one entry per persisted record, chosen by the same rule; neither
\* changes the table.
C15_NameOrUUID ==
    listing # None
        => /\ listing[1].after = listing[1].before
           /\ listing[1].op = "name_or_uuid"
                  => listing[1].ret = <<NameElseUUID(listing[1].of[1])>>
           /\ listing[1].op = "names_or_uuids"
                  => /\ Len(listing[1].ret) = Cardinality(listing[1].before)
                     /\ \A r \in listing[1].before :
                            Cardinality({i \in 1..Len(listing[1].ret) :
                                listing[1].ret[i] = NameElseUUID(r)}) = 1

\* C15 witness: names_or_uuids read over a table of a row named
\* "my-service" and a row whose name is "", giving the name of the first
\* and the UUID of the second.
C15_Witness ==
    /\ listing # None
    /\ listing[1].op = "names_or_uuids"
    /\ Cardinality(listing[1].before) = 2
    /\ \E r1, r2 \in listing[1].before :
          /\ r1.name = Some(my_service)
          /\ r2.name = Some(<<>>)
          /\ listing[1].ret = <<[kind |-> "name", val |-> my_service],
                                [kind |-> "uuid", val |-> r2.uuid]>>

\* C17: for every persisted record r, whatever UUID it was stored with,
\* get_by_name_or_uuid applied to the string form of r's UUID returns r.
C17_FoundByOwnUUID ==
    lookup # None
        => \A r \in lookup[1].before :
              lookup[1].arg = uuid_str(r.uuid)
                  => lookup[1].raised = Null /\ lookup[1].ret = Some(r)

\* C18: for every persisted record r with a non-empty name n,
\* get_by_name_or_uuid(n) returns r, also when n parses as a UUID.
C18_FoundByOwnName ==
    lookup # None
        => \A r \in lookup[1].before :
              r.name \notin {None, Some(<<>>)} /\ lookup[1].arg = r.name[1]
                  => lookup[1].raised = Null /\ lookup[1].ret = Some(r)

----------------------------------------------------------------------------
(* Claims about the autocomplete handler.                                  *)

\* C9: the handler returns the empty result set for every unauthenticated
\* caller, whatever the query, the search fields, min_input_len and the
\* table.
C9_UnauthenticatedEmpty ==
    response # None /\ ~response[1].authenticated
        => response[1].raised = Null /\ response[1].result = {}

\* C9 witness: an unauthenticated request whose query matches a stored
\* row under the handler's search conditions, with min_input_len 0.
C9_Witness ==
    /\ response # None
    /\ ~response[1].authenticated
    /\ response[1].q = <<98>>
    /\ response[1].handler.data_min_input_len = 0
    /\ filter_or(response[1].before,
                 response[1].handler.autocomplete_search_fields, <<98>>) # {}
    /\ response[1].result = {}

\* the rows of which some field named in conds holds q, ignoring case
MatchingRows(table, conds, q) ==
    {r \in table :
        \E i \in 1..Len(conds) :
            \E a \in 1..Len(r[conds[i].field]) :
                \E b \in a..Len(r[conds[i].field]) :
                    lower(SubSeq(r[conds[i].field], a, b)) = lower(q)}

\* C10: for an authenticated caller with a non-empty query q the handler
\* returns exactly the rows of which at least one configured search field
\* contains q ignoring case, whatever min_input_len is.
C10_AuthenticatedFilter ==
    response # None /\ response[1].authenticated /\ response[1].q # <<>>
        => /\ response[1].raised = Null
           /\ response[1].result =
                  MatchingRows(response[1].before,
                               response[1].handler.autocomplete_search_fields,
                               response[1].q)

\* C10, where the handler has at least one search condition: the result
\* is then exactly the matching rows (the claim fails only where the list
\* of search conditions is empty).
C10_WithSearchFields ==
    /\ response # None
    /\ response[1].handler.autocomplete_search_fields # <<>>
    => C10_AuthenticatedFilter

\* C11: for an authenticated caller with an empty query the handler
\* returns the empty result set when min_input_len is not zero, and every
\* row of the bound model when min_input_len is zero, its default.
C11_EmptyQuery ==
    response # None /\ response[1].authenticated /\ response[1].q = <<>>
        => /\ response[1].raised = Null
           /\ response[1].handler.data_min_input_len # 0
                  => response[1].result = {}
           /\ response[1].handler.data_min_input_len = DefaultMinInputLen
                  => response[1].result = response[1].before

\* C11 witness: an authenticated request with an empty query over a table
\* of two rows, answered with no row by a handler whose min_input_len is
\* not zero.
C11_Witness ==
    /\ response # None
    /\ response[1].authenticated
    /\ response[1].q = <<>>
    /\ response[1].handler.data_min_input_len # 0
    /\ Cardinality(response[1].before) = 2
    /\ response[1].result = {}

\* field names suffixed with "__icontains"
Suffixed(fields) ==
    [i \in 1..Len(fields) |-> [field |-> fields[i], lookup |-> "icontains"]]

\* C14: the handler's search conditions are resolved at construction: the
\* search_fields argument, each field suffixed with "__icontains", when it
\* is not empty; otherwise the result of the model's
\* autocomplete_search_fields() when the model has that method; otherwise
\* the model's search_fields(), each suffixed with "__icontains".  The
\* model is not consulted when search_fields is given, and every request
\* is served with the list resolved at construction.
C14_SearchFieldsPrecedence ==
    handler # None
        => /\ handler[1].autocomplete_search_fields =
                  IF handler[1].search_fields # <<>>
                  THEN Suffixed(handler[1].search_fields)
                  ELSE IF handler[1].has_acsf
                       THEN handler[1].model_acsf
                       ELSE Suffixed(handler[1].model_search_fields)
           /\ handler[1].search_fields # <<>> => handler[1].consulted = {}
           /\ response # None
                  => response[1].handler.autocomplete_search_fields =
                         handler[1].autocomplete_search_fields

\* C14 witness: a handler built with search_fields = ('value',) over a
\* model whose autocomplete_search_fields() returns ['key__icontains'] and
\* whose search_fields() are key and value, answering the query "b" with
\* the rows whose value holds it.
C14_Witness ==
    /\ handler # None
    /\ handler[1].search_fields = <<"value">>
    /\ handler[1].has_acsf
    /\ handler[1].model_acsf = <<[field |-> "key", lookup |-> "icontains"]>>
    /\ handler[1].model_search_fields = <<"key", "value">>
    /\ handler[1].autocomplete_search_fields =
           <<[field |-> "value", lookup |-> "icontains"]>>
    /\ response # None
    /\ response[1].authenticated
    /\ response[1].q = <<98>>
    /\ Cardinality(response[1].before) = 2
    /\ response[1].result = {r \in response[1].before : r.value = <<98>>}
    /\ Cardinality(response[1].result) = 1

\* C20: for an authenticated caller with a non-empty query the handler
\* returns a result set and raises nothing, for every configuration the
\* factory accepts, the one with an empty resolved list of search
\* conditions included.
C20_NeverRaises ==
    response # None /\ response[1].authenticated /\ response[1].q # <<>>
        => response[1].raised = Null

----------------------------------------------------------------------------
(* Claims about the extensions migration.                                  *)

SevenExtensions ==
    {"btree_gin", "btree_gist", "citext", "pgcrypto", "hstore", "pg_trgm",
     "unaccent"}

\* C12: the migration depends on no other migration; applied to a database
\* with any set of extensions enabled it raises nothing and ends with the
\* extensions enabled before together with exactly btree_gin, btree_gist,
\* citext, pgcrypto, hstore, pg_trgm and unaccent, so that every other
\* extension is as it was and a database that had the seven is unchanged.
C12_SevenExtensionsIdempotent ==
    migration # None
        => /\ migration[1].dependencies = <<>>
           /\ migration[1].raised = Null
           /\ extensions = migration[1].before \cup SevenExtensions
           /\ extensions \ SevenExtensions = migration[1].before \ SevenExtensions
           /\ SevenExtensions \subseteq migration[1].before
                  => extensions = migration[1].before

\* C12 witness: the migration applied a second time, to a database that
\* by then has the seven extensions and postgis enabled, and not plpgsql.
C12_Witness ==
    /\ migration # None
    /\ migration[1].run = 2
    /\ migration[1].raised = Null
    /\ "postgis" \in extensions
    /\ "plpgsql" \notin extensions
    /\ migration[1].before = SevenExtensions \cup {"postgis"}
    /\ extensions = migration[1].before

----------------------------------------------------------------------------
(* Claims about the snake-case named models.                               *)

\* the row the last successful save wrote
SavedRow ==
    CHOOSE r \in named : r.model = namedCall[1].model /\ r.id = namedCall[1].pk[1]

\* after a successful save the persisted name is snake_case of the
\* supplied name, except that the optional model keeps None and ""
PersistedIsSnakeCaseOfSupplied ==
    namedCall # None /\ namedCall[1].raised = Null
        => /\ namedCall[1].pk # None
           /\ \E r \in named :
                  r.model = namedCall[1].model /\ r.id = namedCall[1].pk[1]
           /\ namedCall[1].model = "required"
                  => SavedRow.name = Some(snake_case(namedCall[1].supplied[1]))
           /\ namedCall[1].model = "optional"
                  => SavedRow.name =
                        IF namedCall[1].supplied \in {None, Some(<<>>)}
                        THEN namedCall[1].supplied
                        ELSE Some(snake_case(namedCall[1].supplied[1]))

\* C13: after any sequence of successful saves every name persisted by
\* the required model is snake_case of the supplied name, the optional
\* model persists None and "" unchanged and every other name as
\* snake_case of the supplied name, and every persisted name that is not
\* None is a fixed point of snake_case.
C13_NamesCanonical ==
    /\ PersistedIsSnakeCaseOfSupplied
    /\ \A r \in named : r.name # None => snake_case(r.name[1]) = r.name[1]

----------------------------------------------------------------------------
(* Claims about modify_abstract_model_field_attrs.                         *)

\* kwargs lists the value v for property p of field f
Lists(kwargs, f, p, v) ==
    \E i \in 1..Len(kwargs) :
        /\ kwargs[i][1] = f
        /\ \E j \in 1..Len(kwargs[i][2]) :
              kwargs[i][2][j] = <<p, v>>

\* C16: the decorator returns the very class it was given; on that class
\* every property listed for a field has the value listed, and every
\* property not listed, every field not named and every other class is as
\* it was.
C16_DecoratorSetsListed ==
    decoration # None /\ decoration[1].raised = Null
        => /\ decoration[1].ret = Some(decoration[1].cls)
           /\ \A c \in ModelClasses, f \in FieldNames, p \in PropertyNames :
                  IF c = decoration[1].cls
                     /\ \E v \in {"x", "y"} : Lists(decoration[1].kwargs, f, p, v)
                  THEN Lists(decoration[1].kwargs, f, p, classes[c][f][p])
                  ELSE classes[c][f][p] = decoration[1].before[c][f][p]
           /\ DOMAIN classes = ModelClasses
           /\ \A c \in ModelClasses :
                  /\ DOMAIN classes[c] = FieldNames
                  /\ \A f \in FieldNames : DOMAIN classes[c][f] = PropertyNames

\* C16 witness: class Job decorated with name = {verbose_name: 'y',
\* null: 'x'} after both classes had other values set: the two properties
\* of Job.name are set, Job.date and class Service keep values set before.
C16_Witness ==
    /\ decoration # None
    /\ decoration[1].raised = Null
    /\ decoration[1].cls = "Job"
    /\ decoration[1].kwargs =
           << <<"name", << <<"verbose_name", "y">>, <<"null", "x">> >> >> >>
    /\ decoration[1].before["Job"]["name"]["verbose_name"] = "x"
    /\ classes["Job"]["name"] = [verbose_name |-> "y", null |-> "x"]
    /\ classes["Job"]["date"]["null"] = "y"
    /\ classes["Service"]["name"]["null"] = "x"
    /\ classes["Service"]["name"]["verbose_name"] = "declared"

====
